---------------------------- MODULE Spec2Model ----------------------------
(***************************************************************************)
(* WhatsAppChatParser (src/WhatAppChatParser.py): the parsing pipeline     *)
(* (_parse, _extract, _format_turns) run by the constructor, and the two   *)
(* mutators set_main_subject and replace_subject.                          *)
(*                                                                         *)
(* A text is a sequence of characters; a character is a one-character      *)
(* string, except the five named below.                                    *)
(***************************************************************************)
EXTENDS Naturals, Sequences, FiniteSets

VARIABLES
    content,       \* the text of the file at self.path
    turns,         \* the constructor's `turns` argument
    pc,            \* "new" | "parsed" | "extracted" | "ready" | "failed"
    messages,      \* self.messages
    subject_list,  \* self.subject_list
    message_list,  \* self.message_list
    subjects,      \* self.subjects
    call,          \* the last call made: its name, arguments and outcome
    pre,           \* subject_list, message_list and subjects before that call
    turn_calls     \* how many times _format_turns has run

vars == <<content, turns, pc, messages, subject_list, message_list, subjects,
          call, pre, turn_calls>>

---------------------------------------------------------------------------
(* Characters *)

LRM   == "LRM"     \* U+200E left-to-right mark
NNBSP == "NNBSP"   \* U+202F narrow no-break space
LF    == "LF"      \* \n
CR    == "CR"      \* \r
TAB   == "TAB"     \* \t

Digit == {"0", "1", "2", "3", "4", "5", "6", "7", "8", "9"}

\* What \s matches and str.strip() removes; NNBSP is whitespace to Python too.
Whitespace == {" ", TAB, LF, CR, NNBSP}

Min(a, b) == IF a < b THEN a ELSE b

Range(s) == {s[i] : i \in DOMAIN s}

---------------------------------------------------------------------------
(* Regular expressions: a pattern is a sequence of items, each a character *)
(* class repeated lo..hi times (many: no upper limit).  Run gives every    *)
(* position a match of the pattern from a position of P can end at, so     *)
(* backtracking is covered.                                                *)

Rep(cls, lo, hi) == [cls |-> cls, lo |-> lo, hi |-> hi, many |-> FALSE]
Lit(c)    == [cls |-> {c}, lo |-> 1, hi |-> 1, many |-> FALSE]
Plus(cls) == [cls |-> cls, lo |-> 1, hi |-> 1, many |-> TRUE]
Star(cls) == [cls |-> cls, lo |-> 0, hi |-> 0, many |-> TRUE]

Step(s, P, it) ==
    UNION { { p + k : k \in { n \in it.lo .. (IF it.many THEN Len(s) - p
                                              ELSE Min(it.hi, Len(s) - p)) :
                              \A j \in 1..n : s[p + j] \in it.cls } }
            : p \in P }

RECURSIVE Run(_, _, _)
Run(s, P, items) ==
    IF items = <<>> \/ P = {} THEN P
    ELSE Run(s, Step(s, P, Head(items)), Tail(items))

\* \d+/\d+/\d+, \d{1,2}:\d{2}
DateTimeShort ==
    << Plus(Digit), Lit("/"), Plus(Digit), Lit("/"), Plus(Digit), Lit(","),
       Lit(" "), Rep(Digit, 1, 2), Lit(":"), Rep(Digit, 2, 2) >>

\* (\d+/\d+/\d+, \d{1,2}:\d{2}\s*[APap][Mm]\s*-\s*)
RegexDash ==
    DateTimeShort \o
    << Star(Whitespace), Rep({"A", "P", "a", "p"}, 1, 1), Rep({"M", "m"}, 1, 1),
       Star(Whitespace), Lit("-"), Star(Whitespace) >>

\* \[\d+/\d+/\d+, \d{1,2}:\d{2}:\d{2} [APM]{2}\]
RegexBracket ==
    << Lit("[") >> \o DateTimeShort \o
    << Lit(":"), Rep(Digit, 2, 2), Lit(" "), Rep({"A", "P", "M"}, 2, 2), Lit("]") >>

\* timestamp_pattern.match(line): self._regex matches at the start of line
TimestampMatch(line) ==
    \/ Run(line, {0}, RegexDash) # {}
    \/ Run(line, {0}, RegexBracket) # {}

\* ,?\s+\d{1,2}:\d{2}
ExtractTime ==
    << Rep({","}, 0, 1), Plus(Whitespace), Rep(Digit, 1, 2), Lit(":"), Rep(Digit, 2, 2) >>

\* :\d{2}\s+[APM]{2}\]\s*
ExtractBracketTail ==
    << Lit(":"), Rep(Digit, 2, 2), Plus(Whitespace), Rep({"A", "P", "M"}, 2, 2),
       Lit("]"), Star(Whitespace) >>

\* \d{2}/\d{2}/\d{4},?\s+\d{1,2}:\d{2}(?:\s?[apAP][mM])?\s*-\s*
ExtractDashEnds(s) ==
    LET timed == Run(s, {0}, << Rep(Digit, 2, 2), Lit("/"), Rep(Digit, 2, 2), Lit("/"),
                                Rep(Digit, 4, 4) >> \o ExtractTime)
        ampm  == Run(s, timed, << Rep(Whitespace, 0, 1), Rep({"a", "p", "A", "P"}, 1, 1),
                                  Rep({"m", "M"}, 1, 1) >>)
    IN  Run(s, timed \cup ampm, << Star(Whitespace), Lit("-"), Star(Whitespace) >>)

\* \[\d{4}/\d{1,2}/\d{1,2},?\s+\d{1,2}:\d{2}:\d{2}\s+[APM]{2}\]\s*
ExtractBracketYmdEnds(s) ==
    Run(s, {0}, << Lit("["), Rep(Digit, 4, 4), Lit("/"), Rep(Digit, 1, 2), Lit("/"),
                   Rep(Digit, 1, 2) >> \o ExtractTime \o ExtractBracketTail)

\* \[\d{2}/\d{2}/\d{4},?\s+\d{1,2}:\d{2}:\d{2}\s+[APM]{2}\]\s*
ExtractBracketDmyEnds(s) ==
    Run(s, {0}, << Lit("["), Rep(Digit, 2, 2), Lit("/"), Rep(Digit, 2, 2), Lit("/"),
                   Rep(Digit, 4, 4) >> \o ExtractTime \o ExtractBracketTail)

\* The ends of the timestamp prefix of self._extract_info after which
\* ([^:]+): can match: one character or more, none a colon, then a colon.
SenderStarts(s) ==
    { e \in ExtractDashEnds(s) \cup ExtractBracketYmdEnds(s) \cup ExtractBracketDmyEnds(s) :
        \E c \in (e + 2)..Len(s) : s[c] = ":" /\ \A j \in (e + 1)..(c - 1) : s[j] # ":" }

\* re.match(self._extract_info, message): <<matched, sender, text>>.  The three
\* prefixes exclude one another and a prefix's ends differ only in its greedy
\* trailing \s*, so the match Python returns is the one with the longest prefix.
\* The text is what follows the colon and the whitespace after it.
ExtractMatch(s) ==
    LET starts == SenderStarts(s) IN
    IF starts = {} THEN <<FALSE, <<>>, <<>>>>
    ELSE LET e == CHOOSE x \in starts : \A y \in starts : y <= x
             c == CHOOSE x \in (e + 2)..Len(s) :
                      s[x] = ":" /\ \A j \in (e + 1)..(x - 1) : s[j] # ":"
             b == CHOOSE x \in (c + 1)..(Len(s) + 1) :
                      /\ \A j \in (c + 1)..(x - 1) : s[j] \in Whitespace
                      /\ x <= Len(s) => s[x] \notin Whitespace
         IN  <<TRUE, SubSeq(s, e + 1, c - 1), SubSeq(s, b, Len(s))>>


---------------------------------------------------------------------------
(* _parse *)

\* content.replace('\u200e', '') then content.replace('\u202f', ' ')
Clean(text) ==
    LET kept == SelectSeq(text, LAMBDA ch : ch # LRM)
    IN  [i \in 1..Len(kept) |-> IF kept[i] = NNBSP THEN " " ELSE kept[i]]

\* content.splitlines(): a line ends at \n, \r or \r\n (LineEnds: the place of
\* the last character of each line ending); a text that ends with a line ending
\* has no empty last line.
LineEnds(text) ==
    {i \in 1..Len(text) :
        \/ text[i] = LF
        \/ text[i] = CR /\ (i = Len(text) \/ text[i + 1] # LF)}

SplitLines(text) ==
    LET ends    == LineEnds(text)
        last    == IF ends = {} THEN 0 ELSE CHOOSE i \in ends : \A j \in ends : j <= i
        n       == Cardinality(ends) + (IF last < Len(text) THEN 1 ELSE 0)
        end(k)  == IF k = 0 THEN 0
                   ELSE CHOOSE i \in ends : Cardinality({j \in ends : j <= i}) = k
        stop(k) == IF k > Cardinality(ends) THEN Len(text)
                   ELSE IF text[end(k)] = LF /\ end(k) - 1 > end(k - 1)
                           /\ text[end(k) - 1] = CR
                        THEN end(k) - 2
                   ELSE end(k) - 1
    IN  [k \in 1..n |-> SubSeq(text, end(k - 1) + 1, stop(k))]

\* line.strip()
Strip(line) ==
    LET solid == {i \in 1..Len(line) : line[i] \notin Whitespace} IN
    IF solid = {} THEN <<>>
    ELSE SubSeq(line, CHOOSE i \in solid : \A j \in solid : i <= j,
                      CHOOSE i \in solid : \A j \in solid : j <= i)

\* if current_message: messages.append(current_message)
Flush(msgs, current_message) ==
    IF current_message # <<>> THEN Append(msgs, current_message) ELSE msgs

\* current_message += ' ' + line.strip()
ContinueNoSpace(current_message, line) == current_message \o Strip(line)

Continue(current_message, line) == current_message \o <<" ">> \o Strip(line)

\* the loop over lines, and the flush that follows it
RECURSIVE ParseLoop(_, _, _)
ParseLoop(lines, msgs, current_message) ==
    IF lines = <<>> THEN Flush(msgs, current_message)
    ELSE IF TimestampMatch(Strip(Head(lines)))
         THEN ParseLoop(Tail(lines), Flush(msgs, current_message), Strip(Head(lines)))
    ELSE ParseLoop(Tail(lines), msgs, Continue(current_message, Head(lines)))

ParseText(text) == ParseLoop(SplitLines(Clean(text)), <<>>, <<>>)

---------------------------------------------------------------------------
(* _extract *)

RECURSIVE ExtractLoop(_, _, _)
ExtractLoop(msgs, sl, ml) ==
    IF msgs = <<>> THEN <<sl, ml>>
    ELSE LET match == ExtractMatch(Head(msgs)) IN
         IF match[1]
         THEN ExtractLoop(Tail(msgs), Append(sl, match[2]), Append(ml, match[3]))
         ELSE ExtractLoop(Tail(msgs), sl, ml)

---------------------------------------------------------------------------
(* _format_turns *)

\* list[1:]
RestAll(list) == list

Rest(list) == SubSeq(list, 2, Len(list))

\* messages[-1] += ' ' + message
MergeNoSpace(msgs, message) ==
    [msgs EXCEPT ![Len(msgs)] = @ \o message]

Merge(msgs, message) ==
    [msgs EXCEPT ![Len(msgs)] = @ \o <<" ">> \o message]

\* the loop over zip(self.subject_list[1:], self.message_list[1:])
RECURSIVE TurnLoop(_, _, _, _, _)
TurnLoop(sl, ml, subs, msgs, current_subject) ==
    IF sl = <<>> \/ ml = <<>> THEN <<subs, msgs>>
    ELSE IF Head(sl) # current_subject
         THEN TurnLoop(Tail(sl), Tail(ml), Append(subs, Head(sl)),
                       Append(msgs, Head(ml)), Head(sl))
    ELSE TurnLoop(Tail(sl), Tail(ml), subs, Merge(msgs, Head(ml)), current_subject)

\* <<subjects, messages>> as _format_turns leaves them, for non-empty lists
Turns(sl, ml) == TurnLoop(Rest(sl), Rest(ml), <<sl[1]>>, <<ml[1]>>, sl[1])

---------------------------------------------------------------------------
(* The files, the names given to the mutators, and the bounds *)

MaxLines     == 3   \* lines of a file
MaxEntries   == 4   \* entries _format_turns is given directly
MaxTurnCalls == 2   \* calls of _format_turns on one parser

LineAliceHello == <<"1", "/", "1", "/", "2", "3", ",", " ", "9", ":", "0", "0", " ", "A", "M", " ", "-", " ", "A", "l", "i", "c", "e", ":", " ", "H", "e", "l", "l", "o", " ", "t", "h", "e", "r", "e", LF>>
LineHowAreYou == <<"H", "o", "w", " ", "a", "r", "e", " ", "y", "o", "u", "?", CR, LF>>
LineBobGood == <<"1", "/", "1", "/", "2", "3", ",", " ", "9", ":", "0", "1", " ", "A", "M", " ", "-", " ", "B", "o", "b", ":", " ", "G", "o", "o", "d", ",", " ", "t", "h", "a", "n", "k", "s", "!", LF>>
LineAlice == <<"0", "1", "/", "0", "1", "/", "2", "0", "2", "3", ",", " ", "9", ":", "0", "2", " ", "A", "M", " ", "-", " ", "A", "l", "i", "c", "e", ":", " ", "H", "i", LF>>
LineBob == <<" ", "[", "0", "1", "/", "0", "1", "/", "2", "0", "2", "3", ",", " ", "9", ":", "0", "3", ":", "0", "0", NNBSP, "P", "M", "]", " ", LRM, "B", "o", "b", ":", " ", "a", ":", "b", TAB, CR>>
LineWrap == <<" ", "o", "k", " ", LF>>

LinePool ==
    {LineAliceHello, LineHowAreYou, LineBobGood, LineAlice, LineBob, LineWrap}

RECURSIVE Concat(_)
Concat(ls) == IF ls = <<>> THEN <<>> ELSE Head(ls) \o Concat(Tail(ls))

Files == { Concat(ls) : ls \in UNION { [1..n -> LinePool] : n \in 0..MaxLines } }

Alice == <<"A", "l", "i", "c", "e">>
Bob   == <<"B", "o", "b">>
Carol == <<"C", "a", "r", "o", "l">>
Names == {Alice, Bob, Carol}

---------------------------------------------------------------------------
(* The parser *)

NoArg == <<>>

Called(op, subject, new, result) ==
    [op |-> op, subject |-> subject, new |-> new, result |-> result]

Snapshot == [subject_list |-> subject_list, message_list |-> message_list,
             subjects |-> subjects]

Init ==
    /\ content \in Files
    /\ turns \in BOOLEAN
    /\ pc = "new"
    /\ messages = <<>>
    /\ subject_list = <<>>
    /\ message_list = <<>>
    /\ subjects = {}
    /\ call = Called("__init__", NoArg, NoArg, "ok")
    /\ pre = [subject_list |-> <<>>, message_list |-> <<>>, subjects |-> {}]
    /\ turn_calls = 0

Parse ==
    /\ pc = "new"
    /\ messages' = ParseText(content)
    /\ pc' = "parsed"
    /\ call' = Called("_parse", NoArg, NoArg, "ok")
    /\ pre' = Snapshot
    /\ UNCHANGED <<content, turns, subject_list, message_list, subjects, turn_calls>>

\* _extract, and the constructor's `if turns:` after it
Extract ==
    /\ pc = "parsed"
    /\ LET got == ExtractLoop(messages, subject_list, message_list) IN
       /\ subject_list' = got[1]
       /\ message_list' = got[2]
       /\ subjects' = Range(got[1])
    /\ pc' = IF turns THEN "extracted" ELSE "ready"
    /\ call' = Called("_extract", NoArg, NoArg, "ok")
    /\ pre' = Snapshot
    /\ UNCHANGED <<content, turns, messages, turn_calls>>

\* _format_turns: self.subject_list[0] of an empty list raises IndexError
FormatTurnsCall ==
    /\ pre' = Snapshot
    /\ turn_calls' = turn_calls + 1
    /\ IF subject_list = <<>> \/ message_list = <<>>
       THEN /\ call' = Called("_format_turns", NoArg, NoArg, "IndexError")
            /\ UNCHANGED <<subject_list, message_list>>
       ELSE /\ call' = Called("_format_turns", NoArg, NoArg, "ok")
            /\ subject_list' = Turns(subject_list, message_list)[1]
            /\ message_list' = Turns(subject_list, message_list)[2]
    /\ UNCHANGED <<content, turns, messages, subjects>>

\* the constructor's call; an exception leaves no parser
FormatTurns ==
    /\ pc = "extracted"
    /\ turns
    /\ FormatTurnsCall
    /\ pc' = IF subject_list = <<>> \/ message_list = <<>> THEN "failed" ELSE "ready"

\* a further call of the method on a constructed parser
FormatTurnsAgain ==
    /\ pc = "ready"
    /\ turn_calls \in 1..(MaxTurnCalls - 1)
    /\ FormatTurnsCall
    /\ pc' = pc

\* message_list[1:] and subject_list[1:] of set_main_subject
DropFirstMessage(ml) == Rest(ml)

DropFirstSubjectKept(sl) == sl

DropFirstSubject(sl) == Rest(sl)

SetMainSubject(subject) ==
    /\ pc = "ready"
    /\ pre' = Snapshot
    /\ IF subject \notin subjects
       THEN /\ call' = Called("set_main_subject", subject, NoArg, "ValueError")
            /\ UNCHANGED <<subject_list, message_list>>
       ELSE IF subject_list = <<>>    \* get_main_subject: self.subject_list[0]
       THEN /\ call' = Called("set_main_subject", subject, NoArg, "IndexError")
            /\ UNCHANGED <<subject_list, message_list>>
       ELSE IF subject = subject_list[1]
       THEN /\ call' = Called("set_main_subject", subject, NoArg, "ok")
            /\ UNCHANGED <<subject_list, message_list>>
       ELSE /\ call' = Called("set_main_subject", subject, NoArg, "ok")
            /\ message_list' = DropFirstMessage(message_list)
            /\ subject_list' = DropFirstSubject(subject_list)
    /\ UNCHANGED <<content, turns, pc, messages, subjects, turn_calls>>

\* [new_subject if subject == old_subject else subject for subject in self.subject_list]
RenamedFirst(sl, old_subject, new_subject) ==
    [i \in 1..Len(sl) |->
        IF sl[i] = old_subject /\ \A j \in 1..(i - 1) : sl[j] # old_subject
        THEN new_subject ELSE sl[i]]

Renamed(sl, old_subject, new_subject) ==
    [i \in 1..Len(sl) |-> IF sl[i] = old_subject THEN new_subject ELSE sl[i]]

ReplaceSubject(old_subject, new_subject) ==
    /\ pc = "ready"
    /\ pre' = Snapshot
    /\ IF old_subject \notin subjects
       THEN /\ call' = Called("replace_subject", old_subject, new_subject, "ValueError")
            /\ UNCHANGED subject_list
       ELSE /\ call' = Called("replace_subject", old_subject, new_subject, "ok")
            /\ subject_list' = Renamed(subject_list, old_subject, new_subject)
    /\ UNCHANGED <<content, turns, pc, messages, message_list, subjects, turn_calls>>

Next ==
    \/ Parse
    \/ Extract
    \/ FormatTurns
    \/ \E subject \in Names : SetMainSubject(subject)
    \/ \E old_subject \in Names, new_subject \in Names :
           ReplaceSubject(old_subject, new_subject)

Spec == Init /\ [][Next]_vars

---------------------------------------------------------------------------
(* _format_turns on its own: the entries are given, not read from a file *)

BodyX == <<"x">>
BodyY == <<"y">>
Bodies == {BodyX, BodyY}

InitTurns ==
    /\ content = <<>>
    /\ turns = TRUE
    /\ pc = "extracted"
    /\ messages = <<>>
    /\ \E n \in 0..MaxEntries :
          /\ subject_list \in [1..n -> Names]
          /\ message_list \in [1..n -> Bodies]
    /\ subjects = Range(subject_list)
    /\ call = Called("_extract", NoArg, NoArg, "ok")
    /\ pre = [subject_list |-> <<>>, message_list |-> <<>>, subjects |-> {}]
    /\ turn_calls = 0

NextTurns ==
    \/ FormatTurns
    \/ FormatTurnsAgain

SpecTurns == InitTurns /\ [][NextTurns]_vars

---------------------------------------------------------------------------
(* What the claims speak of *)

Count(sl, subject) == Cardinality({i \in 1..Len(sl) : sl[i] = subject})

\* the k-th smallest member of a set of numbers
Nth(S, k) == CHOOSE i \in S : Cardinality({j \in S : j <= i}) = k

\* the lines _parse loops over, each trimmed
TrimmedLines ==
    LET lines == SplitLines(Clean(content)) IN [i \in 1..Len(lines) |-> Strip(lines[i])]

TimestampLinesOf(lines) == {i \in 1..Len(lines) : TimestampMatch(lines[i])}

TimestampLines == TimestampLinesOf(TrimmedLines)

\* a timestamp line with the lines i+1..last after it, each after a space
RECURSIVE Folded(_, _, _)
Folded(lines, i, last) ==
    IF last <= i THEN lines[i]
    ELSE Folded(lines, i, last - 1) \o <<" ">> \o lines[last]

\* where a run of one sender starts in a list of senders
RunStarts(sl) == {i \in 1..Len(sl) : i = 1 \/ sl[i] # sl[i - 1]}

RunEnd(sl, k) ==
    IF k = Cardinality(RunStarts(sl)) THEN Len(sl) ELSE Nth(RunStarts(sl), k + 1) - 1

RECURSIVE JoinSpace(_)
JoinSpace(bodies) ==
    IF Len(bodies) = 1 THEN bodies[1]
    ELSE bodies[1] \o <<" ">> \o JoinSpace(Tail(bodies))

ScenarioFile == LineAliceHello \o LineHowAreYou \o LineBobGood

RawAliceHello == <<"1", "/", "1", "/", "2", "3", ",", " ", "9", ":", "0", "0", " ", "A", "M", " ", "-", " ", "A", "l", "i", "c", "e", ":", " ", "H", "e", "l", "l", "o", " ", "t", "h", "e", "r", "e", " ", "H", "o", "w", " ", "a", "r", "e", " ", "y", "o", "u", "?">>
RawBobGood == <<"1", "/", "1", "/", "2", "3", ",", " ", "9", ":", "0", "1", " ", "A", "M", " ", "-", " ", "B", "o", "b", ":", " ", "G", "o", "o", "d", ",", " ", "t", "h", "a", "n", "k", "s", "!">>
BodyAliceHello == <<"H", "e", "l", "l", "o", " ", "t", "h", "e", "r", "e", " ", "H", "o", "w", " ", "a", "r", "e", " ", "y", "o", "u", "?">>
BodyBobGood == <<"G", "o", "o", "d", ",", " ", "t", "h", "a", "n", "k", "s", "!">>

---------------------------------------------------------------------------
(* C1 *)

\* C1, the Segmenter's part: of the scenario's three lines _parse makes the two
\* raw messages the claim gives.
C1_Segmenter ==
    (content = ScenarioFile /\ pc # "new") => messages = <<RawAliceHello, RawBobGood>>

\* C1: of the scenario's three lines _parse makes the two raw messages given,
\* _extract makes the entries (Alice, "Hello there How are you?") and
\* (Bob, "Good, thanks!"), and _format_turns leaves these entries as they are.
C1_Scenario ==
    content = ScenarioFile =>
        /\ pc # "new" => messages = <<RawAliceHello, RawBobGood>>
        /\ pc \in {"extracted", "ready"} =>
              /\ subject_list = <<Alice, Bob>>
              /\ message_list = <<BodyAliceHello, BodyBobGood>>
        /\ pc # "failed"

---------------------------------------------------------------------------
(* C2 *)

\* C2: subject_list and message_list have the same length in every state: after
\* _extract, after _format_turns, and after every call of set_main_subject and
\* replace_subject, whether it returned or raised.
C2_EqualLengths == Len(subject_list) = Len(message_list)

\* set_main_subject has dropped the first of several entries
C2_Witness ==
    /\ call.op = "set_main_subject"
    /\ call.result = "ok"
    /\ Len(pre.subject_list) = Len(subject_list) + 1
    /\ Len(subject_list) >= 1

---------------------------------------------------------------------------
(* C3 *)

\* C3: when the first line starts with a timestamp, _parse gives one raw message
\* for each timestamp line, in the order of the lines, and each is its trimmed
\* timestamp line followed by a space and the trimmed text of every line up to
\* the next timestamp line.
C3_OnePerTimestampLine ==
    call.op = "_parse" =>
        LET lines  == TrimmedLines
            stamps == TimestampLinesOf(lines)
            n      == Cardinality(stamps)
        IN  1 \in stamps =>
              /\ Len(messages) = n
              /\ \A k \in 1..Len(messages) :
                    LET first == Nth(stamps, k)
                        last  == IF k = n THEN Len(lines) ELSE Nth(stamps, k + 1) - 1
                    IN  messages[k] = Folded(lines, first, last)

\* a timestamp line, a wrapped line and a second timestamp line
C3_Witness ==
    /\ call.op = "_parse"
    /\ TimestampLines = {1, 3}
    /\ Len(TrimmedLines) = 3
    /\ TrimmedLines[2] # <<>>
    /\ Len(messages) = 2

---------------------------------------------------------------------------
(* C4 *)

\* C4: every raw message _parse gives starts with a timestamp, whatever the
\* text, a text that starts with blank or other lines included.
C4_EveryMessageStartsWithTimestamp ==
    call.op = "_parse" => \A k \in 1..Len(messages) : TimestampMatch(messages[k])

\* What the code does keep: every raw message after the first starts with a
\* timestamp, and the first does when the first line does.
C4_AllButALeadingOne ==
    call.op = "_parse" =>
        \A k \in 1..Len(messages) :
            (k > 1 \/ 1 \in TimestampLines) => TimestampMatch(messages[k])

---------------------------------------------------------------------------
(* C5 *)

\* C5: _format_turns makes one entry of each longest run of entries of one
\* sender: its sender is the run's, its body the run's bodies in their order
\* with one space between them; the runs keep their order and no two entries
\* that follow one another have the same sender.
C5_OneEntryPerRun ==
    (call.op = "_format_turns" /\ call.result = "ok") =>
        /\ Len(subject_list) = Cardinality(RunStarts(pre.subject_list))
        /\ Len(message_list) = Cardinality(RunStarts(pre.subject_list))
        /\ \A k \in 1..Len(subject_list) :
              LET first == Nth(RunStarts(pre.subject_list), k)
                  last  == RunEnd(pre.subject_list, k)
              IN  /\ subject_list[k] = pre.subject_list[first]
                  /\ message_list[k] = JoinSpace(SubSeq(pre.message_list, first, last))
        /\ \A k \in 1..(Len(subject_list) - 1) : subject_list[k] # subject_list[k + 1]

\* three entries of Alice and one of Bob have become two entries
C5_Witness ==
    /\ call.op = "_format_turns"
    /\ call.result = "ok"
    /\ pre.subject_list = <<Alice, Alice, Alice, Bob>>
    /\ pre.message_list = <<BodyX, BodyY, BodyX, BodyY>>
    /\ subject_list = <<Alice, Bob>>
    /\ message_list = << <<"x", " ", "y", " ", "x">>, BodyY >>

---------------------------------------------------------------------------
(* C6 *)

\* C6: a second _format_turns changes nothing: subject_list and message_list
\* are then what the first call left.
C6_Idempotent ==
    (call.op = "_format_turns" /\ call.result = "ok" /\ turn_calls >= 2) =>
        /\ subject_list = pre.subject_list
        /\ message_list = pre.message_list

\* a second call, after a first one that joined two bodies (the bodies given
\* hold no space) and left two entries or more
C6_Witness ==
    /\ call.op = "_format_turns"
    /\ call.result = "ok"
    /\ turn_calls = 2
    /\ Len(subject_list) >= 2
    /\ \E k \in 1..Len(message_list) : " " \in Range(message_list[k])

---------------------------------------------------------------------------
(* C7 *)

\* C7: a replace_subject(old, new) that returns leaves message_list and subjects
\* alone and the entries as many and in their order; an entry of old is now an
\* entry of new, every other entry keeps its sender, and when old # new the
\* list gains as many new as it had old.
C7_ReplaceSubjectFrame ==
    (call.op = "replace_subject" /\ call.result = "ok") =>
        /\ message_list = pre.message_list
        /\ subjects = pre.subjects
        /\ Len(subject_list) = Len(pre.subject_list)
        /\ \A i \in 1..Len(pre.subject_list) :
              IF pre.subject_list[i] = call.subject
              THEN subject_list[i] = call.new
              ELSE subject_list[i] = pre.subject_list[i]
        /\ call.subject # call.new =>
              Count(subject_list, call.new) =
                  Count(pre.subject_list, call.new) + Count(pre.subject_list, call.subject)

\* two entries of old and an entry of another sender, renamed to a new name
C7_Witness ==
    /\ call.op = "replace_subject"
    /\ call.result = "ok"
    /\ call.subject # call.new
    /\ Count(pre.subject_list, call.subject) >= 2
    /\ \E i \in 1..Len(pre.subject_list) : pre.subject_list[i] # call.subject
    /\ Count(subject_list, call.new) >= 2

---------------------------------------------------------------------------
(* C8 *)

\* C8: set_main_subject(name) with name in subjects changes nothing when name
\* is the sender of the first entry, and otherwise removes the first entry, and
\* that alone, from both lists, leaving subjects as it was.
C8_SetMainSubjectFrame ==
    (call.op = "set_main_subject" /\ call.subject \in pre.subjects) =>
        /\ call.result = "ok"
        /\ subjects = pre.subjects
        /\ IF pre.subject_list # <<>> /\ call.subject = pre.subject_list[1]
           THEN /\ subject_list = pre.subject_list
                /\ message_list = pre.message_list
           ELSE /\ pre.subject_list # <<>>
                /\ subject_list = Tail(pre.subject_list)
                /\ message_list = Tail(pre.message_list)

\* What the code does keep: the same, of a parser that has an entry.
C8_WithAnEntry ==
    (call.op = "set_main_subject" /\ call.subject \in pre.subjects
        /\ pre.subject_list # <<>>) =>
        /\ call.result = "ok"
        /\ subjects = pre.subjects
        /\ IF call.subject = pre.subject_list[1]
           THEN /\ subject_list = pre.subject_list
                /\ message_list = pre.message_list
           ELSE /\ subject_list = Tail(pre.subject_list)
                /\ message_list = Tail(pre.message_list)

---------------------------------------------------------------------------
(* C9 *)

\* C9: set_main_subject(s) and replace_subject(s, new) raise ValueError when s
\* is the sender of no entry of subject_list, and only then.
C9_ValueErrorIffNoEntry ==
    call.op \in {"set_main_subject", "replace_subject"} =>
        (call.result = "ValueError" <=> call.subject \notin Range(pre.subject_list))

\* What the code does keep: ValueError when s is not in subjects, and only then.
C9_ValueErrorIffNotInSubjects ==
    call.op \in {"set_main_subject", "replace_subject"} =>
        (call.result = "ValueError" <=> call.subject \notin pre.subjects)

---------------------------------------------------------------------------
(* C10 *)

\* C10: a parser made with an entry or more never comes to have none, whatever
\* the calls of set_main_subject and replace_subject, and no such call fails
\* otherwise than with the ValueError of an unknown sender.
C10_NeverEmpty ==
    (pc = "ready" /\ subjects # {}) =>
        /\ subject_list # <<>>
        /\ call.op \in {"set_main_subject", "replace_subject"} =>
              call.result \in {"ok", "ValueError"}

\* the fault itself: set_main_subject raising IndexError is never seen
C10_NoIndexError ==
    (pc = "ready" /\ subjects # {}) =>
        ~(call.op = "set_main_subject" /\ call.result = "IndexError")

===========================================================================
